---- MODULE Spec2Model ----
(***************************************************************************)
(* Model of the logrange server configuration unit, server/config.go:      *)
(* the Config struct, GetDefaultConfig, Config.Apply, Config.Localhost and *)
(* ReadConfigFromFile.                                                     *)
(*                                                                         *)
(* A *Config pointer is modelled as a sequence: <<>> is nil and <<x>> is a *)
(* pointer to the value x.                                                 *)
(***************************************************************************)
EXTENDS Integers, Sequences, FiniteSets

VARIABLES
    c,          \* the destination Config (the receiver of Apply and Localhost)
    cfg,        \* the source *Config handed to Apply: Nil or Ptr(config)
    pre,        \* Ptr(value of c on entry to the latest Apply), Nil if none
    applyRun,   \* number of consecutive Apply calls made with the current cfg
    ret,        \* Ptr(result of the latest Localhost call), Nil if none
    pc,         \* position of ReadConfigFromFile
    filename,   \* argument of the current ReadConfigFromFile call
    fs,         \* what the file system holds at filename
    cfgData,    \* local cfgData of ReadConfigFromFile: Nil or Ptr(document)
    err,        \* local err of ReadConfigFromFile (outer scope)
    events      \* diagnostics and panic of the current ReadConfigFromFile call

vars == <<c, cfg, pre, applyRun, ret, pc, filename, fs, cfgData, err, events>>

----------------------------------------------------------------------------
(* Bounds of the model *)

\* signed integer fields range over -1 and 0..MaxSec (the default adds 5)
MaxSec == 1
\* HostHostId ranges over 0..MaxHostId
MaxHostId == 1
\* a source built by the caller has at most MaxSetFields non-zero fields
MaxSetFields == 2
\* Apply is called at most MaxApplyRun times in a row with the same source
MaxApplyRun == 2

----------------------------------------------------------------------------
(* Pointers *)

Nil == <<>>
Ptr(x) == <<x>>
Deref(p) == p[1]

----------------------------------------------------------------------------
(* The Config struct and transport.Config *)

DefaultJournalsDir == "/opt/logrange/db/"
DefaultPublicAddr == "127.0.0.1:9966"
DefaultPrivateAddr == "127.0.0.1:9967"
DefaultLeaseTTLSec == 5

\* the zero value transport.Config{}
ZeroTransport == [ListenAddr |-> "", TlsCertFile |-> ""]

\* transport.Config values: the zero value, a listen address alone, and a
\* descriptor in which only another sub-field is set
TransportConfigs ==
    { ZeroTransport,
      [ListenAddr |-> DefaultPublicAddr, TlsCertFile |-> ""],
      [ListenAddr |-> DefaultPrivateAddr, TlsCertFile |-> ""],
      [ListenAddr |-> "", TlsCertFile |-> "cert.pem"] }

Dirs == {"", DefaultJournalsDir, "/var/data"}
HostIds == 0..MaxHostId
SecValues == {-1} \cup (0..MaxSec)

\* new(Config) / Config{}
ZeroConfig ==
    [JournalsDir |-> "", HostHostId |-> 0, HostLeaseTTLSec |-> 0,
     HostRegisterTimeoutSec |-> 0,
     PublicApiRpc |-> ZeroTransport, PrivateApiRpc |-> ZeroTransport]

Configs ==
    [JournalsDir : Dirs, HostHostId : HostIds, HostLeaseTTLSec : SecValues,
     HostRegisterTimeoutSec : SecValues,
     PublicApiRpc : TransportConfigs, PrivateApiRpc : TransportConfigs]

FieldNames ==
    {"JournalsDir", "HostHostId", "HostLeaseTTLSec", "HostRegisterTimeoutSec",
     "PublicApiRpc", "PrivateApiRpc"}

\* Config values a caller builds by setting at most MaxSetFields fields
Sources ==
    {s \in Configs :
        Cardinality({f \in FieldNames : s[f] # ZeroConfig[f]}) <= MaxSetFields}

\* a default with the two listen addresses exchanged
GetDefaultConfig_Swapped ==
    [ZeroConfig EXCEPT !.JournalsDir = DefaultJournalsDir,
                       !.PublicApiRpc.ListenAddr = DefaultPrivateAddr,
                       !.PrivateApiRpc.ListenAddr = DefaultPublicAddr,
                       !.HostLeaseTTLSec = DefaultLeaseTTLSec]

GetDefaultConfig ==
    LET c0 == ZeroConfig
        c1 == [c0 EXCEPT !.JournalsDir = DefaultJournalsDir]
        c2 == [c1 EXCEPT !.PublicApiRpc.ListenAddr = DefaultPublicAddr]
        c3 == [c2 EXCEPT !.PrivateApiRpc.ListenAddr = DefaultPrivateAddr]
        c4 == [c3 EXCEPT !.HostLeaseTTLSec = DefaultLeaseTTLSec]
    IN  c4

\* a descriptor built from the public listen address
Localhost_Public(d) == [RpcAddr |-> d.PublicApiRpc.ListenAddr]

\* model.HostInfo{RpcAddr: cluster.HostAddr(c.PrivateApiRpc.ListenAddr)}
Localhost(d) == [RpcAddr |-> d.PrivateApiRpc.ListenAddr]

----------------------------------------------------------------------------
(* Config.Apply *)

\* a guard that lets an empty string through
IsSetStr_Always(s) == TRUE

\* len(cfg.JournalsDir) > 0
IsSetStr(s) == s # ""

\* a guard that lets the zero identifier through
IsSetId_OrZero(n) == n >= 0

\* cfg.HostHostId > 0
IsSetId(n) == n > 0

\* a guard that lets zero through
IsSetInt_OrZero(n) == n >= 0

\* a guard that tests for non-zero instead of positive
IsSetInt_NonZero(n) == n # 0

\* cfg.HostLeaseTTLSec > 0, cfg.HostRegisterTimeoutSec > 0
IsSetInt(n) == n > 0

\* a guard that looks at the listen address only
IsSetTransport_AddrOnly(t) == t.ListenAddr # ""

\* !reflect.DeepEqual(cfg.PublicApiRpc, transport.Config{})
IsSetTransport(t) == t # ZeroTransport

\* an override that accumulates instead of assigning
OverrideInt_Add(dst, src) == IF IsSetInt(src) THEN dst + src ELSE dst

\* if cfg.X > 0 { c.X = cfg.X } for the two int fields
OverrideInt(dst, src) == IF IsSetInt(src) THEN src ELSE dst

Apply(d, p) ==
    IF p = Nil THEN d
    ELSE LET s  == Deref(p)
             d1 == IF IsSetStr(s.JournalsDir)
                   THEN [d EXCEPT !.JournalsDir = s.JournalsDir] ELSE d
             d2 == IF IsSetId(s.HostHostId)
                   THEN [d1 EXCEPT !.HostHostId = s.HostHostId] ELSE d1
             d3 == IF IsSetTransport(s.PublicApiRpc)
                   THEN [d2 EXCEPT !.PublicApiRpc = s.PublicApiRpc] ELSE d2
             d4 == IF IsSetTransport(s.PrivateApiRpc)
                   THEN [d3 EXCEPT !.PrivateApiRpc = s.PrivateApiRpc] ELSE d3
             d5 == [d4 EXCEPT !.HostLeaseTTLSec =
                                  OverrideInt(@, s.HostLeaseTTLSec)]
             d6 == [d5 EXCEPT !.HostRegisterTimeoutSec =
                                  OverrideInt(@, s.HostRegisterTimeoutSec)]
         IN  d6

----------------------------------------------------------------------------
(* The file system at filename, as os.Stat and ioutil.ReadFile see it *)

\* a JSON value: a string, a number or an object (a sequence of members)
JStr(x) == [t |-> "string", s |-> x, n |-> 0, o |-> <<>>]
JNum(x) == [t |-> "number", s |-> "", n |-> x, o |-> <<>>]
JObj(ms) == [t |-> "object", s |-> "", n |-> 0, o |-> ms]
Member(k, v) == [k |-> k, v |-> v]

\* the content of a file: text that is or is not a JSON document; a valid
\* document is an object given by its members in textual order
BadSyntax == [valid |-> FALSE, members |-> <<>>]
Document(ms) == [valid |-> TRUE, members |-> ms]

Docs ==
    { BadSyntax,
      Document(<<>>),
      Document(<<Member("JournalsDir", JStr("/var/data"))>>),
      Document(<<Member("JournalsDir", JStr("/var/data")),
                 Member("Comment", JStr("ignored"))>>),
      Document(<<Member("HostLeaseTTLSec", JNum(-1)),
                 Member("HostRegisterTimeoutSec", JNum(MaxSec))>>),
      Document(<<Member("PublicApiRpc",
                        JObj(<<Member("TlsCertFile", JStr("cert.pem"))>>)),
                 Member("HostHostId", JNum(MaxHostId))>>),
      Document(<<Member("PrivateApiRpc",
                        JObj(<<Member("ListenAddr", JStr(DefaultPublicAddr))>>))>>),
      Document(<<Member("JournalsDir", JNum(7))>>),
      Document(<<Member("HostHostId", JNum(-1))>>) }

\* absent: no such file (ENOENT).  notdir: a component of the path prefix is
\* not a directory, so the path names nothing (ENOTDIR).  unreadable: the file
\* exists but may not be opened for reading (EACCES).  file: a readable file.
FsStates ==
    {[kind |-> "absent", data |-> BadSyntax],
     [kind |-> "notdir", data |-> BadSyntax],
     [kind |-> "unreadable", data |-> BadSyntax]}
    \cup {[kind |-> "file", data |-> d] : d \in Docs}

NoFile == [kind |-> "absent", data |-> BadSyntax]

Exists(f) == f.kind \in {"unreadable", "file"}

\* the error of os.Stat(filename)
Stat(f) ==
    CASE f.kind = "absent" -> "ENOENT"
      [] f.kind = "notdir" -> "ENOTDIR"
      [] OTHER -> "nil"

\* os.IsNotExist(err)
IsNotExist(e) == e = "ENOENT"

\* ioutil.ReadFile(filename)
ReadFile(f) ==
    CASE f.kind = "absent" -> [err |-> "ENOENT", data |-> Nil]
      [] f.kind = "notdir" -> [err |-> "ENOTDIR", data |-> Nil]
      [] f.kind = "unreadable" -> [err |-> "EACCES", data |-> Nil]
      [] OTHER -> [err |-> "nil", data |-> Ptr(f.data)]

----------------------------------------------------------------------------
(* json.Unmarshal(cfgData, c) onto a zero Config *)

FirstErr(e1, e2) == IF e1 # "nil" THEN e1 ELSE e2

\* decoding of the members of a transport.Config object, in order
RECURSIVE DecodeTransport(_, _)
DecodeTransport(ms, acc) ==
    IF ms = <<>> THEN acc
    ELSE LET m == Head(ms)
             next ==
                 IF m.k \in {"ListenAddr", "TlsCertFile"}
                 THEN IF m.v.t = "string"
                      THEN [acc EXCEPT !.val[m.k] = m.v.s]
                      ELSE [acc EXCEPT !.err = FirstErr(@, "UnmarshalTypeError")]
                 ELSE acc
         IN  DecodeTransport(Tail(ms), next)

\* decoding of the members of the Config object, in order; a member whose
\* name is no field is skipped, a value of the wrong JSON type is skipped and
\* the first such error is reported at the end
RECURSIVE DecodeConfig(_, _)
DecodeConfig(ms, acc) ==
    IF ms = <<>> THEN acc
    ELSE LET m == Head(ms)
             bad == [acc EXCEPT !.err = FirstErr(@, "UnmarshalTypeError")]
             next ==
                 CASE m.k = "JournalsDir" ->
                        IF m.v.t = "string"
                        THEN [acc EXCEPT !.val.JournalsDir = m.v.s] ELSE bad
                   [] m.k = "HostHostId" ->
                        IF m.v.t = "number" /\ m.v.n >= 0
                        THEN [acc EXCEPT !.val.HostHostId = m.v.n] ELSE bad
                   [] m.k \in {"HostLeaseTTLSec", "HostRegisterTimeoutSec"} ->
                        IF m.v.t = "number"
                        THEN [acc EXCEPT !.val[m.k] = m.v.n] ELSE bad
                   [] m.k \in {"PublicApiRpc", "PrivateApiRpc"} ->
                        IF m.v.t = "object"
                        THEN LET r == DecodeTransport(m.v.o,
                                          [err |-> "nil", val |-> acc.val[m.k]])
                             IN  [err |-> FirstErr(acc.err, r.err),
                                  val |-> [acc.val EXCEPT ![m.k] = r.val]]
                        ELSE bad
                   [] OTHER -> acc
         IN  DecodeConfig(Tail(ms), next)

Unmarshal(doc) ==
    IF ~doc.valid THEN [err |-> "SyntaxError", val |-> ZeroConfig]
    ELSE DecodeConfig(doc.members, [err |-> "nil", val |-> ZeroConfig])

----------------------------------------------------------------------------
(* ReadConfigFromFile *)

Event(ev, msg, file, cause) ==
    [ev |-> ev, msg |-> msg, file |-> file, cause |-> cause]

\* a panic that wraps the cause without the file name, and no Fatal before it
FatalThenPanic_Bare(logmsg, wrapmsg, file, cause) ==
    << Event("panic", wrapmsg, "", cause) >>

\* configLog.Fatal(...) followed by panic(errors.Wrapf(err, msg, filename))
FatalThenPanic(logmsg, wrapmsg, file, cause) ==
    << Event("Fatal", logmsg, file, cause),
       Event("panic", wrapmsg, file, cause) >>

Ready == pc \in {"idle", "returned"}

\* the call, up to the test of filename
ReadConfigFromFile ==
    /\ Ready
    /\ \E fn \in {"", "conf/logrange.json"} :
         /\ filename' = fn
         /\ IF fn = ""
            THEN /\ pc' = "returned"
                 /\ fs' = NoFile
            ELSE /\ pc' = "stat"
                 /\ fs' \in FsStates
    /\ cfg' = Nil
    /\ cfgData' = Nil
    /\ err' = "nil"
    /\ events' = <<>>
    /\ pre' = Nil
    /\ applyRun' = 0
    /\ ret' = Nil
    /\ UNCHANGED c

\* if _, err := os.Stat(filename); os.IsNotExist(err) { Warn; return nil }
StatFile ==
    /\ pc = "stat"
    /\ IF IsNotExist(Stat(fs))
       THEN /\ events' = <<Event("Warn", "There is no file", filename, "nil")>>
            /\ pc' = "returned"
       ELSE /\ events' = events
            /\ pc' = "read"
    /\ UNCHANGED <<c, cfg, pre, applyRun, ret, filename, fs, cfgData, err>>

\* another process removes the file between os.Stat and ioutil.ReadFile
RemoveFile ==
    /\ pc = "read"
    /\ Exists(fs)
    /\ fs' = NoFile
    /\ UNCHANGED <<c, cfg, pre, applyRun, ret, pc, filename, cfgData, err, events>>

\* cfgData, err := ioutil.ReadFile(filename); if err != nil { Fatal; panic }
ReadData ==
    /\ pc = "read"
    /\ LET r == ReadFile(fs)
       IN  /\ err' = r.err
           /\ cfgData' = r.data
           /\ IF r.err # "nil"
              THEN /\ events' = FatalThenPanic(
                                    "Could not read configuration file",
                                    "Could not read data from config file",
                                    filename, r.err)
                   /\ pc' = "panicked"
              ELSE /\ events' = events
                   /\ pc' = "unmarshal"
    /\ UNCHANGED <<c, cfg, pre, applyRun, ret, filename, fs>>

\* c := &Config{}; err = json.Unmarshal(cfgData, c); Fatal and panic on an
\* error, otherwise Info and return c
UnmarshalData ==
    /\ pc = "unmarshal"
    /\ LET r == Unmarshal(Deref(cfgData))
       IN  /\ err' = r.err
           /\ IF r.err # "nil"
              THEN /\ events' = FatalThenPanic(
                                    "Could not unmarshal data from",
                                    "Could not unmarshal json data from config file",
                                    filename, r.err)
                   /\ pc' = "panicked"
                   /\ cfg' = cfg
              ELSE /\ events' = <<Event("Info", "Configuration read from",
                                        filename, "nil")>>
                   /\ pc' = "returned"
                   /\ cfg' = Ptr(r.val)
    /\ UNCHANGED <<c, pre, applyRun, ret, filename, fs, cfgData>>

----------------------------------------------------------------------------
(* Caller-side operations *)

\* the frame of ReadConfigFromFile when the source does not come from a file
NoCall ==
    /\ pc' = "idle"
    /\ filename' = ""
    /\ fs' = NoFile
    /\ cfgData' = Nil
    /\ err' = "nil"
    /\ events' = <<>>

CallGetDefaultConfig ==
    /\ Ready
    /\ c' = GetDefaultConfig
    /\ pre' = Nil
    /\ applyRun' = 0
    /\ ret' = Nil
    /\ UNCHANGED <<cfg, pc, filename, fs, cfgData, err, events>>

\* Config values with at most one field set: applying any source amounts to
\* applying its fields one after the other
Overrides ==
    {[ZeroConfig EXCEPT !.JournalsDir = v] : v \in Dirs}
    \cup {[ZeroConfig EXCEPT !.HostHostId = v] : v \in HostIds}
    \cup {[ZeroConfig EXCEPT !.HostLeaseTTLSec = v] : v \in SecValues}
    \cup {[ZeroConfig EXCEPT !.HostRegisterTimeoutSec = v] : v \in SecValues}
    \cup {[ZeroConfig EXCEPT !.PublicApiRpc = v] : v \in TransportConfigs}
    \cup {[ZeroConfig EXCEPT !.PrivateApiRpc = v] : v \in TransportConfigs}

\* the caller builds the source itself (nil or a Config value); a source is
\* replaced only once it has been applied
NewSource ==
    /\ Ready
    /\ cfg = Nil \/ applyRun > 0
    /\ \E p \in {Nil} \cup {Ptr(s) : s \in Overrides} : cfg' = p
    /\ pre' = Nil
    /\ applyRun' = 0
    /\ ret' = Nil
    /\ NoCall
    /\ UNCHANGED c

CallApply ==
    /\ Ready
    /\ applyRun < MaxApplyRun
    /\ pre' = Ptr(c)
    /\ c' = Apply(c, cfg)
    /\ applyRun' = applyRun + 1
    /\ ret' = Nil
    /\ UNCHANGED <<cfg, pc, filename, fs, cfgData, err, events>>

CallLocalhost ==
    /\ Ready
    /\ ret = Nil
    /\ ret' = Ptr(Localhost(c))
    /\ UNCHANGED <<c, cfg, pre, applyRun, pc, filename, fs, cfgData, err, events>>

----------------------------------------------------------------------------
(* Specifications *)

NoFrame ==
    /\ pc = "idle"
    /\ filename = ""
    /\ fs = NoFile
    /\ cfgData = Nil
    /\ err = "nil"
    /\ events = <<>>

\* process startup: the default Config, then overrides from a file or built
\* by the caller are applied onto it
Init ==
    /\ c = GetDefaultConfig
    /\ cfg = Nil
    /\ pre = Nil
    /\ applyRun = 0
    /\ ret = Nil
    /\ NoFrame

Next ==
    \/ CallGetDefaultConfig
    \/ ReadConfigFromFile
    \/ StatFile
    \/ RemoveFile
    \/ ReadData
    \/ UnmarshalData
    \/ NewSource
    \/ CallApply
    \/ CallLocalhost

Spec == Init /\ [][Next]_vars

\* Apply as a function of its two inputs: any destination, any source
InitApply ==
    /\ c \in Configs
    /\ cfg \in {Nil} \cup {Ptr(s) : s \in Sources}
    /\ pre = Nil
    /\ applyRun = 0
    /\ ret = Nil
    /\ NoFrame

NextApply == CallApply

SpecApply == InitApply /\ [][NextApply]_vars

----------------------------------------------------------------------------
(* Properties of Apply, checked under SpecApply.  In a state with          *)
(* applyRun >= 1, Deref(pre) is the destination before the latest Apply,   *)
(* cfg its source and c the destination after it.                          *)

ScalarFields ==
    {"JournalsDir", "HostHostId", "HostLeaseTTLSec", "HostRegisterTimeoutSec"}

Applied == applyRun >= 1

\* field F of s is the only field of s that differs from the zero Config
OnlyFieldSet(s, F) ==
    /\ s[F] # ZeroConfig[F]
    /\ \A G \in FieldNames \ {F} : s[G] = ZeroConfig[G]

\* a non-empty string or a positive integer
Positive(F, v) == IF F = "JournalsDir" THEN v # "" ELSE v > 0

\* C1 as stated: a source whose only non-zero field is the scalar F, negative
\* values of the signed fields included, makes the destination the old
\* destination with F replaced by the source's value.
C1_AnyNonZeroScalarReplaces ==
    (Applied /\ cfg # Nil) =>
        \A F \in ScalarFields :
            OnlyFieldSet(Deref(cfg), F) =>
                c = [Deref(pre) EXCEPT ![F] = Deref(cfg)[F]]

\* C1 amended: a source whose only non-zero field is the scalar F makes the
\* destination the old destination with F replaced when F's value is a
\* non-empty string or a positive integer, and leaves the destination as it
\* was when F's value is a negative integer.
C1_PositiveScalarReplaces ==
    (Applied /\ cfg # Nil) =>
        \A F \in ScalarFields :
            OnlyFieldSet(Deref(cfg), F) =>
                IF Positive(F, Deref(cfg)[F])
                THEN c = [Deref(pre) EXCEPT ![F] = Deref(cfg)[F]]
                ELSE c = Deref(pre)

\* a positive lease TTL alone has replaced a different one
C1_Witness ==
    /\ applyRun = 1
    /\ cfg # Nil
    /\ OnlyFieldSet(Deref(cfg), "HostLeaseTTLSec")
    /\ Deref(cfg).HostLeaseTTLSec > 0
    /\ Deref(pre).HostLeaseTTLSec # Deref(cfg).HostLeaseTTLSec
    /\ Deref(pre).JournalsDir # ""
    /\ c = [Deref(pre) EXCEPT !.HostLeaseTTLSec = Deref(cfg).HostLeaseTTLSec]

\* C2: a source transport descriptor with any sub-field set replaces the
\* destination's descriptor in full, sub-field by sub-field, for the public
\* and for the private descriptor.
C2_WholeTransportReplaced ==
    (Applied /\ cfg # Nil) =>
        \A T \in {"PublicApiRpc", "PrivateApiRpc"} :
            (Deref(cfg)[T].ListenAddr # "" \/ Deref(cfg)[T].TlsCertFile # "") =>
                /\ c[T].ListenAddr = Deref(cfg)[T].ListenAddr
                /\ c[T].TlsCertFile = Deref(cfg)[T].TlsCertFile

\* a source descriptor with no listen address has cleared a set one
C2_Witness ==
    /\ applyRun = 1
    /\ cfg # Nil
    /\ Deref(cfg).PublicApiRpc.ListenAddr = ""
    /\ Deref(cfg).PublicApiRpc.TlsCertFile # ""
    /\ Deref(pre).PublicApiRpc.ListenAddr # ""
    /\ c.PublicApiRpc.ListenAddr = ""

\* C3: Apply of a nil source, or of a source whose fields are all zero,
\* leaves every field of the destination unchanged.
C3_NilOrZeroSourceIsNoOp ==
    (Applied /\ (cfg = Nil \/ \A F \in FieldNames : Deref(cfg)[F] = ZeroConfig[F]))
        => \A F \in FieldNames : c[F] = Deref(pre)[F]

\* an all-zero source has been applied onto a destination with set fields
C3_Witness ==
    /\ applyRun = 1
    /\ cfg = Ptr(ZeroConfig)
    /\ Deref(pre).JournalsDir # ""
    /\ Deref(pre).HostHostId > 0
    /\ Deref(pre).HostLeaseTTLSec > 0
    /\ Deref(pre).PublicApiRpc # ZeroTransport
    /\ c = Deref(pre)

\* C4: applying the same source a second time in a row changes nothing.
C4_Idempotent ==
    applyRun >= 2 => \A F \in FieldNames : c[F] = Deref(pre)[F]

\* a source with a lease TTL and a directory has been applied twice
C4_Witness ==
    /\ applyRun = 2
    /\ cfg # Nil
    /\ Deref(cfg).HostLeaseTTLSec > 0
    /\ Deref(cfg).JournalsDir # ""
    /\ c.HostLeaseTTLSec = Deref(cfg).HostLeaseTTLSec
    /\ c.JournalsDir = Deref(cfg).JournalsDir

\* C9: a top-level field of the destination differs after Apply only if the
\* source's field is non-empty for its type.
C9_ChangeOnlyFromNonEmpty ==
    Applied =>
        \A F \in FieldNames :
            c[F] # Deref(pre)[F] => (cfg # Nil /\ Deref(cfg)[F] # ZeroConfig[F])

\* one field was overridden while an empty source field left a set one alone
C9_Witness ==
    /\ applyRun = 1
    /\ cfg # Nil
    /\ Deref(cfg).JournalsDir = ""
    /\ Deref(pre).JournalsDir # ""
    /\ c.JournalsDir = Deref(pre).JournalsDir
    /\ c.HostHostId # Deref(pre).HostHostId

----------------------------------------------------------------------------
(* Properties of the startup sequence, checked under Spec *)

Finished == pc \in {"returned", "panicked"}

\* C5 as stated: a call with a non-empty path at which no file exists,
\* whatever os.Stat and the read then report, returns nil after a warning;
\* it does not panic and logs nothing at Fatal level.
C5_MissingFileNeverPanics ==
    (Finished /\ filename # "" /\ ~Exists(fs)) =>
        /\ pc = "returned"
        /\ cfg = Nil
        /\ Len(events) = 1
        /\ events[1].ev = "Warn"

\* C6: when the read of the file or the parse of its content fails, the
\* call logs at Fatal level and then panics with an error that wraps the
\* cause and names the file; it returns nothing and logs no Info.
C6_ReadOrParseFailurePanics ==
    err # "nil" =>
        /\ pc = "panicked"
        /\ cfg = Nil
        /\ Len(events) = 2
        /\ events[1].ev = "Fatal" /\ events[1].file = filename
        /\ events[2].ev = "panic" /\ events[2].file = filename
        /\ events[2].cause = err

\* a readable file with malformed content has made the call panic
C6_Witness ==
    /\ pc = "panicked"
    /\ fs.kind = "file"
    /\ ~fs.data.valid
    /\ err = "SyntaxError"

\* the members of doc that name a Config field are JournalsDir = v only
SetsOnlyJournalsDir(doc, v) ==
    /\ doc.valid
    /\ \E i \in 1..Len(doc.members) : doc.members[i].k = "JournalsDir"
    /\ \A i \in 1..Len(doc.members) :
          doc.members[i].k \in FieldNames =>
              /\ doc.members[i].k = "JournalsDir"
              /\ doc.members[i].v.t = "string"
              /\ doc.members[i].v.s = v

\* C7: loading a well-formed file that sets only JournalsDir returns a
\* Config with that JournalsDir and every other field zero, and applying it
\* onto the default Config gives the default values with JournalsDir replaced.
C7_StartupWithJournalsDirFile ==
    \A v \in Dirs \ {""} :
        (pc = "returned" /\ cfgData # Nil /\ SetsOnlyJournalsDir(Deref(cfgData), v)) =>
            /\ cfg = Ptr([JournalsDir |-> v, HostHostId |-> 0,
                          HostLeaseTTLSec |-> 0, HostRegisterTimeoutSec |-> 0,
                          PublicApiRpc |-> [ListenAddr |-> "", TlsCertFile |-> ""],
                          PrivateApiRpc |-> [ListenAddr |-> "", TlsCertFile |-> ""]])
            /\ (applyRun = 1 /\ pre = Ptr(GetDefaultConfig)) =>
                  c = [JournalsDir |-> v, HostHostId |-> 0,
                       HostLeaseTTLSec |-> 5, HostRegisterTimeoutSec |-> 0,
                       PublicApiRpc |-> [ListenAddr |-> "127.0.0.1:9966",
                                         TlsCertFile |-> ""],
                       PrivateApiRpc |-> [ListenAddr |-> "127.0.0.1:9967",
                                          TlsCertFile |-> ""]]

\* the file's JournalsDir has replaced the default one
C7_Witness ==
    /\ pc = "returned"
    /\ cfgData # Nil
    /\ SetsOnlyJournalsDir(Deref(cfgData), "/var/data")
    /\ applyRun = 1
    /\ pre = Ptr(GetDefaultConfig)
    /\ c.JournalsDir = "/var/data"

\* C8: the descriptor Localhost returns carries the private listen address
\* of the Config it is called on, whatever the public descriptor is.
C8_LocalhostIsPrivateAddr ==
    ret # Nil =>
        /\ Deref(ret).RpcAddr = c.PrivateApiRpc.ListenAddr
        /\ \A t \in TransportConfigs :
              Localhost([c EXCEPT !.PublicApiRpc = t]) = Deref(ret)

\* Localhost was called after an Apply that changed the private address
C8_Witness ==
    /\ ret # Nil
    /\ applyRun >= 1
    /\ c.PrivateApiRpc.ListenAddr # Deref(pre).PrivateApiRpc.ListenAddr
    /\ c.PrivateApiRpc.ListenAddr # c.PublicApiRpc.ListenAddr
    /\ Deref(ret).RpcAddr = c.PrivateApiRpc.ListenAddr

\* C10: from the default Config on, every Config reached by Apply calls has
\* a non-empty JournalsDir, HostLeaseTTLSec >= 1 and HostRegisterTimeoutSec
\* >= 0, and no Apply clears a scalar field that was set.
C10_DefaultsNeverCleared ==
    /\ c.JournalsDir # ""
    /\ c.HostLeaseTTLSec >= 1
    /\ c.HostRegisterTimeoutSec >= 0
    /\ Applied =>
          \A F \in ScalarFields :
              Deref(pre)[F] # ZeroConfig[F] => c[F] # ZeroConfig[F]

\* a negative registration timeout has been applied onto a set one
C10_Witness ==
    /\ applyRun >= 1
    /\ cfg # Nil
    /\ Deref(cfg).HostRegisterTimeoutSec < 0
    /\ Deref(pre).HostRegisterTimeoutSec > 0
    /\ c.HostRegisterTimeoutSec = Deref(pre).HostRegisterTimeoutSec
====
